---- MODULE Spec2Model ----
(***************************************************************************)
(* rwatcher: a polling file watcher.                                       *)
(*                                                                         *)
(*   FileWatcher (src/src/lib.rs)      start()/stop(), the Poller thread    *)
(*                                     (scan, diff, publish) and the       *)
(*                                     Notifier thread (callbacks)         *)
(*   SearchDir   (src/src/search_dir.rs) filter parsing and the directory   *)
(*                                     scan                                *)
(*                                                                         *)
(* Strings are sequences of one-character strings, so that splitting,      *)
(* prefix tests, substring tests and the filter grammar are computed the   *)
(* way the code computes them.                                             *)
(***************************************************************************)
EXTENDS Integers, Sequences, FiniteSets, TLC

VARIABLES
    now,          \* the filesystem clock
    disk,         \* the entries of the watched directory: a set of File records
    dirMeta,      \* the watched directory's own metadata
    fsOps,        \* number of filesystem operations performed so far
    filter,       \* FileWatcher.filter : Option<String>
    notify_filters, \* FileWatcher.notify_filters : u8 bit pattern
    callbacks,    \* FileWatcher.on_created/on_changed/on_deleted/on_renamed
    is_started,   \* FileWatcher.is_started : Arc<Mutex<bool>>
    runs,         \* one record per successful start(): its Poller and Notifier
    calls,        \* the start()/stop() calls made so far, with their results
    root,         \* what the watched path is: "dir", "file" or "missing"
    watcher,      \* the FileWatcher object: "none", "built", or "panicked"
                  \* when FileWatcher::new panicked
    dir_depth,    \* FileWatcher.dir_depth : Option<u8>
    overflow_checks, \* the build: u8 overflow panics (TRUE) or wraps (FALSE)
    special,      \* the paths of the entries of disk that are neither a
                  \* regular file nor a directory (symbolic links, pipes, ..)
    unreadable    \* the directories below the root that fs::read_dir fails on

vars == <<now, disk, dirMeta, fsOps, filter, notify_filters, callbacks,
          is_started, runs, calls, root, watcher, dir_depth, overflow_checks,
          special, unreadable>>

(***************************************************************************)
(* Bounds of the model.                                                    *)
(***************************************************************************)
MaxCalls == 3       \* start()/stop() calls in Spec
MaxFsOps == 1       \* filesystem operations in Spec
WatchFsOps == 3     \* filesystem operations in SpecWatch
DiffNames == 4      \* file names in SpecDiff
MaxTokens == 2      \* tokens of a filter expression in SpecScan
DepthLevels == 3    \* levels of subdirectories in SpecDepth
NotifyNames == 1    \* file names in SpecNotify
LifeCalls == 1      \* start() calls in SpecLife
LifeFsOps == 2      \* filesystem operations in SpecLife
FairCalls == 2      \* start()/stop() calls in SpecFair, the first start() included
FairFsOps == 2      \* filesystem operations in SpecFair

\* Option<T>: None is the empty sequence, Some(x) is <<x>>.
None == <<>>
Some(x) == <<x>>
Unwrap(o) == o[1]

(***************************************************************************)
(* Strings.                                                                *)
(***************************************************************************)
Min(S) == CHOOSE x \in S : \A y \in S : x <= y
Max(S) == CHOOSE x \in S : \A y \in S : x >= y

AlnumChars == {"a", "b", "d", "f", "g", "n", "p", "t", "x"}

\* str::starts_with
StartsWith(s, p) == Len(s) >= Len(p) /\ SubSeq(s, 1, Len(p)) = p

\* str::contains (substring test)
StrContains(s, p) ==
    \E i \in 1..(Len(s) + 1) :
        i + Len(p) - 1 <= Len(s) /\ SubSeq(s, i, i + Len(p) - 1) = p

\* str::split on a set of separator characters
RECURSIVE SplitFrom(_, _, _, _)
SplitFrom(s, seps, i, cur) ==
    IF i > Len(s) THEN <<cur>>
    ELSE IF s[i] \in seps THEN <<cur>> \o SplitFrom(s, seps, i + 1, <<>>)
    ELSE SplitFrom(s, seps, i + 1, Append(cur, s[i]))

Split(s, seps) == SplitFrom(s, seps, 1, <<>>)

AllAlnum(s) == \A i \in 1..Len(s) : s[i] \in AlnumChars

EMPTY_STRING == <<>>
POINT_CHAR == "."
ALL_FILES_FILTER == <<"*", ".", "*">>
FILTER_SEPARATORS == {";", ","}

\* ^\*\.\*$|^\*\.([a-zA-Z0-9])+$|^([a-zA-Z0-9])+\.([a-zA-Z0-9])+$
VALID_FILTER_REGEX_PATH(elem) ==
    \/ elem = ALL_FILES_FILTER
    \/ /\ Len(elem) >= 3
       /\ elem[1] = "*"
       /\ elem[2] = "."
       /\ AllAlnum(SubSeq(elem, 3, Len(elem)))
    \/ \E k \in 2..(Len(elem) - 1) :
          /\ elem[k] = "."
          /\ AllAlnum(SubSeq(elem, 1, k - 1))
          /\ AllAlnum(SubSeq(elem, k + 1, Len(elem)))

\* Path::extension of a file name: the part after the last '.', None when
\* there is no '.', or when the only '.' is the first character.
DotPositions(name) == {i \in 1..Len(name) : name[i] = POINT_CHAR}

PathExtension(name) ==
    IF DotPositions(name) = {} \/ Max(DotPositions(name)) = 1 THEN None
    ELSE Some(SubSeq(name, Max(DotPositions(name)) + 1, Len(name)))

(***************************************************************************)
(* NotifyFilters: the bitflags constants are the numbers 0..7, used as bit  *)
(* patterns of a u8.                                                       *)
(***************************************************************************)
Attributes == 0
CreationTime == 1
DirectoryName == 2
FileName == 3
LastAccess == 4
LastWrite == 5
Security == 6
Size == 7

RECURSIVE BitAnd(_, _)
BitAnd(a, b) ==
    IF a = 0 \/ b = 0 THEN 0
    ELSE (a % 2) * (b % 2) + 2 * BitAnd(a \div 2, b \div 2)

\* bitflags contains(): every bit of flag is set in mask
Contains(mask, flag) == BitAnd(mask, flag) = flag

\* bitflags `|`: the union of the bits of a and b
RECURSIVE BitOr(_, _)
BitOr(a, b) ==
    IF a = 0 THEN b
    ELSE IF b = 0 THEN a
    ELSE Max({a % 2, b % 2}) + 2 * BitOr(a \div 2, b \div 2)

\* the mask a caller builds from a set of flags: empty() for no flag, and
\* f1 | f2 | ... otherwise
RECURSIVE OrAll(_)
OrAll(flags) ==
    IF flags = {} THEN 0
    ELSE LET f == CHOOSE x \in flags : TRUE
         IN  BitOr(f, OrAll(flags \ {f}))

(***************************************************************************)
(* SearchDir::new: parse the filter expression.  The result is the         *)
(* SearchDir, or a panic.  flt is the Option<String> given to new().       *)
(***************************************************************************)
split_extensions(file) == Split(file, FILTER_SEPARATORS)

include_all_files(file) ==
    \E i \in 1..Len(split_extensions(file)) :
        split_extensions(file)[i] = ALL_FILES_FILTER

\* the token after '*.' : elem.split('.')[1]
ExtOfToken(elem) == Split(elem, {POINT_CHAR})[2]

RECURSIVE CollectExts(_)
CollectExts(elems) ==
    IF elems = <<>> THEN <<>>
    ELSE IF StartsWith(Head(elems), <<"*">>)
         THEN <<ExtOfToken(Head(elems))>> \o CollectExts(Tail(elems))
         ELSE CollectExts(Tail(elems))

RECURSIVE CollectFiles(_)
CollectFiles(elems) ==
    IF elems = <<>> THEN <<>>
    ELSE IF StartsWith(Head(elems), <<"*">>)
         THEN CollectFiles(Tail(elems))
         ELSE <<Head(elems)>> \o CollectFiles(Tail(elems))

NoSearchDir ==
    [panicked |-> TRUE, depth |-> None, extensions |-> None, file_names |-> None,
     include_all_files |-> FALSE, meta |-> None]

SearchDirNew(depth, flt, meta) ==
    IF flt = None \/ Unwrap(flt) = EMPTY_STRING
    THEN [panicked |-> FALSE, depth |-> depth, extensions |-> None,
          file_names |-> None, include_all_files |-> FALSE, meta |-> Some(meta)]
    ELSE IF include_all_files(Unwrap(flt))
    THEN [panicked |-> FALSE, depth |-> depth, extensions |-> None,
          file_names |-> None, include_all_files |-> TRUE, meta |-> Some(meta)]
    ELSE IF \E i \in 1..Len(split_extensions(Unwrap(flt))) :
                ~VALID_FILTER_REGEX_PATH(split_extensions(Unwrap(flt))[i])
    THEN NoSearchDir
    ELSE [panicked |-> FALSE, depth |-> depth,
          extensions |-> Some(CollectExts(split_extensions(Unwrap(flt)))),
          file_names |-> Some(CollectFiles(split_extensions(Unwrap(flt)))),
          include_all_files |-> FALSE, meta |-> Some(meta)]

(***************************************************************************)
(* SearchDir::get_files_internal: the filter closure applied to one file   *)
(* entry, and the scan of the directory.                                   *)
(***************************************************************************)
SeqAny(s, P(_)) == \E i \in 1..Len(s) : P(s[i])

EntryFilter(sd, file_name) ==
    LET file_ext == PathExtension(file_name)
        ExtHit(e) == StrContains(e, Unwrap(file_ext))
        NameHit(n) == n = file_name
    IN  IF sd.extensions # None /\ file_ext # None
        THEN SeqAny(Unwrap(sd.extensions), ExtHit)
        ELSE IF sd.file_names # None
        THEN SeqAny(Unwrap(sd.file_names), NameHit)
        ELSE TRUE

\* A File's name is its path below the root, the directories of the path
\* separated by PATH_SEP; a directory is the prefix of the paths below it.
PATH_SEP == "/"

SepPositions(path) == {i \in 1..Len(path) : path[i] = PATH_SEP}

\* the entries of dir: its files, and the directories right below it
FilesIn(dir, entries) ==
    {f \in entries :
        /\ StartsWith(f.name, dir)
        /\ SepPositions(SubSeq(f.name, Len(dir) + 1, Len(f.name))) = {}}

SubDirsOf(dir, entries) ==
    {SubSeq(f.name, 1, Len(dir) + Min(SepPositions(
                            SubSeq(f.name, Len(dir) + 1, Len(f.name))))) :
        f \in {g \in entries :
                  /\ StartsWith(g.name, dir)
                  /\ SepPositions(SubSeq(g.name, Len(dir) + 1, Len(g.name))) # {}}}

\* the last component of a path
FileNameOf(path) ==
    IF SepPositions(path) = {} THEN path
    ELSE SubSeq(path, Max(SepPositions(path)) + 1, Len(path))

\* entry.file_type().is_file()
IsFile(path) == path \notin special

\* fs::read_dir(dir) is Ok
ReadDir_AlwaysOk(dir) == TRUE
ReadDir(dir) == dir \notin unreadable

\* an entry that is not a regular file passes the filter closure; of these,
\* the directories are descended into and the others are inserted
RECURSIVE get_files_internal(_, _, _, _)
get_files_internal(dir, depth, sd, entries) ==
    IF depth = 0 \/ ~ReadDir(dir) THEN {}
    ELSE {f \in FilesIn(dir, entries) :
             ~IsFile(f.name) \/ EntryFilter(sd, FileNameOf(f.name))}
         \cup UNION {get_files_internal(d, depth - 1, sd, entries) :
                        d \in SubDirsOf(dir, entries)}

U8_MAX == 255

\* rec_limit of SearchDir::get_files
rec_limit(sd) == IF sd.depth = None THEN U8_MAX - 1 ELSE Unwrap(sd.depth)

\* rec_limit + 1 does not fit a u8: a panic in a build with overflow checks,
\* a wrap to 0 in a build without
Overflows(sd) == rec_limit(sd) + 1 > U8_MAX

\* SearchDir::get_files in a build where rec_limit + 1 wraps
SearchDirGetFiles(sd, entries) ==
    get_files_internal(<<>>, (rec_limit(sd) + 1) % (U8_MAX + 1), sd, entries)

(***************************************************************************)
(* FileWatcher::apply_notify_filters and FileWatcher::get_files: a scanned  *)
(* file is kept when one of its timestamps differs from the timestamp of   *)
(* the directory metadata held by the SearchDir.                           *)
(***************************************************************************)
apply_notify_filters(file, old_meta, mask) ==
    IF Contains(mask, LastWrite) /\ old_meta.modified # file.last_modified
    THEN TRUE
    ELSE IF Contains(mask, LastAccess) /\ old_meta.accessed # file.last_modified
    THEN TRUE
    ELSE Contains(mask, CreationTime) /\ old_meta.created # file.created

get_files(sd, mask, entries) ==
    {f \in SearchDirGetFiles(sd, entries) :
        apply_notify_filters(f, Unwrap(sd.meta), mask)}

(***************************************************************************)
(* HashSet<File>: File equality and hashing use the name only, so a set of *)
(* File records holds at most one record per name.                         *)
(***************************************************************************)
NamesOf(S) == {f.name : f \in S}

\* HashSet::difference
Difference(A, B) == {f \in A : f.name \notin NamesOf(B)}

\* HashSet::union: the elements of A, then those of B that A does not hold
Union(A, B) == A \cup Difference(B, A)

\* the orders in which a HashSet may be iterated
RECURSIVE IterationOrders(_)
IterationOrders(S) ==
    IF S = {} THEN {<<>>}
    ELSE UNION {{<<x>> \o o : o \in IterationOrders(S \ {x})} : x \in S}

(***************************************************************************)
(* One Poller cycle (the body of the loop in FileWatcher::start after the  *)
(* pre-check): diff, rename correlation, baseline update, publication.     *)
(***************************************************************************)
created_files_NoDifference(latest_files, all_files) == latest_files

created_files(latest_files, all_files) == Difference(latest_files, all_files)

deleted_files(all_files, latest_files) == Difference(all_files, latest_files)

changed_files_AnyTimestamp(latest_files, all_files) ==
    {file \in latest_files :
        \E fe \in all_files :
            /\ fe.name = file.name
            /\ \/ fe.last_modified # file.last_modified
               \/ fe.last_accessed # file.last_accessed}

changed_files(latest_files, all_files) ==
    {file \in latest_files :
        \E fe \in all_files :
            fe.name = file.name /\ fe.last_modified # file.last_modified}

\* all_files.remove(file); all_files.insert(file.clone()) for every changed file
RefreshChanged(all_files, changed) ==
    {fe \in all_files : fe.name \notin NamesOf(changed)} \cup changed

\* the inner loop: the first deleted file, in iteration order, whose
\* last_modified equals the created file's; 0 when there is none
FirstMatch(created, deleted_order) ==
    LET hits == {i \in DOMAIN deleted_order :
                    deleted_order[i].last_modified = created.last_modified}
    IN  IF hits = {} THEN 0 ELSE Min(hits)

\* the pairs pushed on renamed_files, with the records they came from
RenameMatches(created, deleted_order) ==
    {[created |-> c, deleted |-> deleted_order[FirstMatch(c, deleted_order)]] :
        c \in {x \in created : FirstMatch(x, deleted_order) # 0}}

RenamedFileEntry(name, old_name) == [name |-> name, old_name |-> old_name]

renamed_files(created, deleted_order) ==
    {RenamedFileEntry(m.created.name, m.deleted.name) :
        m \in RenameMatches(created, deleted_order)}

ApplyRenames_InsertOnly(all_files, matches) ==
    all_files \cup {m.created : m \in matches}

\* all_files.remove(deleted); all_files.insert(created.clone()) per pair
ApplyRenames(all_files, matches) ==
    {f \in all_files : f.name \notin {m.deleted.name : m \in matches}}
        \cup {m.created : m \in matches}

RetainCreated_KeepAll(created, renamed) == created

RetainDeleted_KeepAll(deleted, renamed) == deleted

\* created_files.retain(..) and deleted_files.retain(..)
RetainCreated(created, renamed) ==
    {f \in created : ~\E v \in renamed : v.name = f.name}

RetainDeleted(deleted, renamed) ==
    {f \in deleted : ~\E v \in renamed : v.old_name = f.name}

\* the baseline after the publication block
PublishBaseline(all_files, created, deleted) ==
    LET with_created == IF created # {} THEN Union(all_files, created) ELSE all_files
    IN  IF deleted # {} THEN Difference(with_created, deleted) ELSE with_created

CONTINUE(kind, data) == [kind |-> kind, data |-> data]
EXIT == [kind |-> "EXIT", data |-> {}]

PublishMessages_DeletedFirst(created, changed, deleted, renamed) ==
    (IF deleted # {} THEN <<CONTINUE("DELETE", deleted)>> ELSE <<>>)
    \o (IF created # {} THEN <<CONTINUE("CREATE", created)>> ELSE <<>>)
    \o (IF changed # {} THEN <<CONTINUE("CHANGE", changed)>> ELSE <<>>)
    \o (IF renamed # {} THEN <<CONTINUE("RENAME", renamed)>> ELSE <<>>)

\* the messages of one cycle, in the order they are sent
PublishMessages(created, changed, deleted, renamed) ==
    (IF created # {} THEN <<CONTINUE("CREATE", created)>> ELSE <<>>)
    \o (IF changed # {} THEN <<CONTINUE("CHANGE", changed)>> ELSE <<>>)
    \o (IF deleted # {} THEN <<CONTINUE("DELETE", deleted)>> ELSE <<>>)
    \o (IF renamed # {} THEN <<CONTINUE("RENAME", renamed)>> ELSE <<>>)

\* the local variables of the loop body at the end of a cycle
Cycle(all_files, latest_files, deleted_order) ==
    LET created0 == created_files(latest_files, all_files)
        deleted0 == deleted_files(all_files, latest_files)
        changed  == changed_files(latest_files, all_files)
        all1     == RefreshChanged(all_files, changed)
        matches  == RenameMatches(created0, deleted_order)
        renamed  == renamed_files(created0, deleted_order)
        all2     == ApplyRenames(all1, matches)
        created  == RetainCreated(created0, renamed)
        deleted  == RetainDeleted(deleted0, renamed)
    IN  [ran |-> TRUE,
         seen_before |-> {},
         seen |-> {},
         before |-> all_files,
         latest_files |-> latest_files,
         created0 |-> created0,
         deleted0 |-> deleted0,
         created_files |-> created,
         changed_files |-> changed,
         deleted_files |-> deleted,
         renamed_files |-> renamed,
         all_files |-> PublishBaseline(all2, created, deleted),
         messages |-> PublishMessages(created, changed, deleted, renamed)]

NoCycle ==
    [ran |-> FALSE, seen_before |-> {}, seen |-> {}, before |-> {}, latest_files |-> {}, created0 |-> {},
     deleted0 |-> {}, created_files |-> {}, changed_files |-> {},
     deleted_files |-> {}, renamed_files |-> {}, all_files |-> {},
     messages |-> <<>>]

(***************************************************************************)
(* The watched directory.                                                  *)
(***************************************************************************)
NameA == <<"a", ".", "t", "x", "t">>
NameB == <<"b", ".", "t", "x", "t">>
NamePng == <<"a", ".", "p", "n", "g">>
MainNames == {NameA, NameB}

\* search_dir::File, as built from a directory entry's metadata
File(name, modified, accessed, created) ==
    [name |-> name, last_modified |-> modified, last_accessed |-> accessed,
     created |-> created]

Metadata(modified, accessed, created) ==
    [modified |-> modified, accessed |-> accessed, created |-> created]

\* "*.txt;*.pdf"
FilterTxtPdf ==
    <<"*", ".", "t", "x", "t", ";", "*", ".", "p", "d", "f">>

AllCallbacks ==
    [on_created |-> TRUE, on_changed |-> TRUE, on_deleted |-> TRUE,
     on_renamed |-> TRUE]

\* the registration of tests::it_works: on_changed only
OnlyOnChanged ==
    [on_created |-> FALSE, on_changed |-> TRUE, on_deleted |-> FALSE,
     on_renamed |-> FALSE]

\* directories the watcher is constructed on: one whose file was written in
\* the clock tick in which the directory was made, and one whose file was
\* written later
InitialDirs ==
    { [disk |-> {File(NameA, 0, 0, 0)}, meta |-> Metadata(0, 0, 0)],
      [disk |-> {File(NameA, 1, 1, 1)}, meta |-> Metadata(1, 0, 0)] }

\* a watched tree of regular files in readable directories
PlainTree ==
    /\ special = {}
    /\ unreadable = {}

\* FileWatcher::new has returned a watcher on an existing directory, with
\* dir_depth unset
Constructed ==
    /\ root = "dir"
    /\ watcher = "built"
    /\ dir_depth = None
    /\ overflow_checks = TRUE

\* FileWatcher::new on a directory holding a.txt, with notify_filters at its
\* default, and the callbacks registered before start()
Init ==
    /\ Constructed
    /\ PlainTree
    /\ now = 1
    /\ disk = {File(NameA, 1, 1, 1)}
    /\ dirMeta = Metadata(1, 0, 0)
    /\ fsOps = 0
    /\ filter = Some(FilterTxtPdf)
    /\ notify_filters = LastWrite
    /\ callbacks \in {AllCallbacks, OnlyOnChanged}
    /\ is_started = FALSE
    /\ runs = <<>>
    /\ calls = <<>>

(***************************************************************************)
(* The filesystem (the environment of the watcher).                        *)
(***************************************************************************)
envVars == <<now, disk, dirMeta, fsOps, root, special, unreadable>>
configVars == <<filter, notify_filters, callbacks, watcher, dir_depth,
                overflow_checks>>
watcherVars == <<filter, notify_filters, callbacks, is_started, runs, calls,
                 watcher, dir_depth, overflow_checks>>

\* a filesystem operation happens at the current clock value or at the next
\* one, and is stamped with it
Clock(t) ==
    /\ t \in {now, now + 1}
    /\ now' = t

FsStep(limit, t) ==
    /\ root = "dir"
    /\ fsOps < limit
    /\ fsOps' = fsOps + 1
    /\ Clock(t)
    /\ UNCHANGED <<watcherVars, root, special, unreadable>>

\* a new entry changes the directory's modified time
CreateFile(limit, n) ==
    \E t \in {now, now + 1} :
        /\ FsStep(limit, t)
        /\ n \notin NamesOf(disk)
        /\ disk' = disk \cup {File(n, t, t, t)}
        /\ dirMeta' = [dirMeta EXCEPT !.modified = t]

DeleteFile(limit, n) ==
    \E t \in {now, now + 1} :
        /\ FsStep(limit, t)
        /\ n \in NamesOf(disk)
        /\ disk' = {f \in disk : f.name # n}
        /\ dirMeta' = [dirMeta EXCEPT !.modified = t]

\* a rename keeps the file's timestamps
RenameFile(limit, n, m) ==
    \E t \in {now, now + 1} :
        /\ FsStep(limit, t)
        /\ n \in NamesOf(disk)
        /\ m \notin NamesOf(disk)
        /\ disk' = {f \in disk : f.name # n}
                     \cup {[f EXCEPT !.name = m] : f \in {g \in disk : g.name = n}}
        /\ dirMeta' = [dirMeta EXCEPT !.modified = t]

\* writing to a file changes the file's modified time, not the directory's
WriteFile(limit, n) ==
    \E t \in {now, now + 1} :
        /\ FsStep(limit, t)
        /\ n \in NamesOf(disk)
        /\ disk' = {IF f.name = n THEN [f EXCEPT !.last_modified = t] ELSE f :
                       f \in disk}
        /\ UNCHANGED dirMeta

\* an entry the filter does not match comes or goes (or the directory's
\* times are set): only the directory's modified time changes
TouchDir(limit) ==
    \E t \in {now, now + 1} :
        /\ FsStep(limit, t)
        /\ dirMeta' = [dirMeta EXCEPT !.modified = t]
        /\ UNCHANGED disk

\* the watched directory is removed with all it holds
RemoveRoot(limit) ==
    /\ root = "dir"
    /\ fsOps < limit
    /\ fsOps' = fsOps + 1
    /\ \E t \in {now, now + 1} : Clock(t)
    /\ root' = "missing"
    /\ disk' = {}
    /\ UNCHANGED <<dirMeta, watcherVars, special, unreadable>>

\* the filesystem operations on the entries named in names
EntryOps(limit, names) ==
    \/ \E n \in names : CreateFile(limit, n)
    \/ \E n \in names : DeleteFile(limit, n)
    \/ \E n \in names : WriteFile(limit, n)

FileSystem(limit, names) ==
    \/ EntryOps(limit, names)
    \/ \E n, m \in names : RenameFile(limit, n, m)

(***************************************************************************)
(* FileWatcher::new, FileWatcher::start and FileWatcher::stop.             *)
(***************************************************************************)
\* FileWatcher::new(dir, filter, ..): panics when the path does not exist,
\* and returns the watcher otherwise; the filter is stored as given
New ==
    /\ watcher = "none"
    /\ watcher' = IF root = "missing" THEN "panicked" ELSE "built"
    /\ UNCHANGED <<envVars, filter, notify_filters, callbacks, is_started, runs,
                   calls, dir_depth, overflow_checks>>

StartReturn_IgnoresFlag(started) == TRUE

\* start() returns Ok(false) when is_started is set, Ok(true) otherwise
StartReturn(started) == ~started

\* stop() returns Ok(false) when is_started is clear, Ok(true) otherwise
StopReturn(started) == started

\* the values the two threads capture when they are spawned
NewRun ==
    [pc |-> "new", npc |-> "recv",
     filter |-> filter, notify_filters |-> notify_filters,
     callbacks |-> callbacks,
     depth |-> dir_depth,
     search_dir |-> NoSearchDir, all_files |-> {},
     chan |-> <<>>,
     panic |-> None,           \* what the Poller panicked on, when it did
     dir_read |-> 0,           \* the directory's modified time as the thread
                               \*   last read it
     \* what follows records the run for the properties
     sent |-> <<>>,            \* every message sent, with its cycle and
                               \*   whether the channel took it
     invoked |-> <<>>,         \* every call of a callback
     published |-> 0,          \* cycles that sent a message
     seen |-> {},              \* the filter-matching files at the last scan
     stop_requested |-> FALSE, \* stop() returned true for this run
     cycle |-> NoCycle]        \* the loop body's variables at its last end

Call(op, ret, after) ==
    [op |-> op, before |-> is_started, ret |-> ret, after |-> after]

Start(limit) ==
    /\ watcher = "built"
    /\ Len(calls) < limit
    /\ IF StartReturn(is_started)
       THEN /\ runs' = Append(runs, NewRun)
            /\ is_started' = TRUE
       ELSE UNCHANGED <<runs, is_started>>
    /\ calls' = Append(calls, Call("start", StartReturn(is_started), is_started'))
    /\ UNCHANGED <<envVars, configVars>>

\* the run whose threads the watcher's handles refer to
LatestRun == Len(runs)

\* on_created, on_changed, on_deleted, on_renamed: the field becomes
\* Some(action)
Register(slot) ==
    /\ watcher = "built"
    /\ callbacks' = [callbacks EXCEPT ![slot] = TRUE]
    /\ UNCHANGED <<envVars, filter, notify_filters, watcher, dir_depth,
                   overflow_checks, is_started, runs, calls>>

Stop(limit) ==
    /\ watcher = "built"
    /\ Len(calls) < limit
    /\ IF StopReturn(is_started)
       THEN /\ is_started' = FALSE
            /\ runs' = [runs EXCEPT ![LatestRun].stop_requested = TRUE]
       ELSE UNCHANGED <<runs, is_started>>
    /\ calls' = Append(calls, Call("stop", StopReturn(is_started), is_started'))
    /\ UNCHANGED <<envVars, configVars>>

(***************************************************************************)
(* The Poller thread of run r.                                             *)
(***************************************************************************)

\* SearchDir::new in the thread: panics when the path is not a directory,
\* and on a malformed filter
PollerNew(r) ==
    /\ runs[r].pc = "new"
    /\ LET sd == IF root = "dir"
                 THEN SearchDirNew(runs[r].depth, runs[r].filter, dirMeta)
                 ELSE NoSearchDir
       IN  runs' = [runs EXCEPT
               ![r].search_dir = sd,
               ![r].pc = IF sd.panicked THEN "panicked" ELSE "load",
               ![r].panic = IF root # "dir" THEN Some("root")
                            ELSE IF sd.panicked THEN Some("filter") ELSE None]
    /\ UNCHANGED <<envVars, configVars, is_started, calls>>

\* load existing files
PollerLoad(r) ==
    /\ runs[r].pc = "load"
    /\ runs' = [runs EXCEPT ![r] =
           IF overflow_checks /\ Overflows(runs[r].search_dir)
           THEN [runs[r] EXCEPT !.pc = "panicked", !.panic = Some("overflow")]
           ELSE [runs[r] EXCEPT
                    !.all_files = get_files(runs[r].search_dir,
                                            runs[r].notify_filters, disk),
                    !.seen = SearchDirGetFiles(runs[r].search_dir, disk),
                    !.pc = "sync"]]
    /\ UNCHANGED <<envVars, configVars, is_started, calls>>

\* search_dir.sync_metadata(): fs::metadata(..).unwrap() panics when the
\* directory is gone
PollerSync(r) ==
    /\ runs[r].pc = "sync"
    /\ runs' = [runs EXCEPT ![r] =
           IF root = "missing"
           THEN [runs[r] EXCEPT !.pc = "panicked", !.panic = Some("metadata")]
           ELSE [runs[r] EXCEPT !.search_dir.meta = Some(dirMeta),
                                !.dir_read = dirMeta.modified,
                                !.pc = "check"]]
    /\ UNCHANGED <<envVars, configVars, is_started, calls>>

\* what the loop does with the value it reads from is_started
ShouldExit(started) == ~started

\* the Receiver lives in the Notifier thread and is dropped when it ends
ReceiverAlive(run) == run.npc \in {"recv", "hung"}

\* mpsc::channel() is unbounded: send never waits for the Receiver
CanSend_Rendezvous(run) == run.chan = <<>>
CanSend(run) == TRUE

\* send() on the channel: the message is queued while the Receiver lives, and
\* is lost (send returns Err) when it does not
Send(run, messages) ==
    [run EXCEPT
        !.chan = IF ReceiverAlive(run) THEN run.chan \o messages ELSE run.chan,
        !.sent = run.sent \o [i \in 1..Len(messages) |->
                                 [cycle |-> run.published + 1, msg |-> messages[i],
                                  queued |-> ReceiverAlive(run)]],
        !.published = IF messages = <<>> THEN run.published ELSE run.published + 1]

\* after sending EXIT the Poller breaks out of its loop
AfterExit_NoBreak == "check"
AfterExit == "done"

\* top of the loop: leave when the flag is false, sending EXIT
PollerCheck(r) ==
    /\ runs[r].pc = "check"
    /\ ShouldExit(is_started) => CanSend(runs[r])
    /\ runs' = [runs EXCEPT ![r] =
           IF ShouldExit(is_started)
           THEN [Send(runs[r], <<EXIT>>) EXCEPT !.pc = AfterExit]
           ELSE [runs[r] EXCEPT !.pc = "poll"]]
    /\ UNCHANGED <<envVars, configVars, is_started, calls>>

\* SearchDir::has_changed
has_changed(sd, meta) == Unwrap(sd.meta).modified # meta.modified

\* the pre-check: sleep and go back to the top when nothing changed;
\* has_changed unwraps fs::metadata(..) and panics when the directory is gone
PollerPreCheck(r) ==
    /\ runs[r].pc = "poll"
    /\ runs' = [runs EXCEPT ![r] =
           IF root = "missing"
           THEN [runs[r] EXCEPT !.pc = "panicked", !.panic = Some("metadata")]
           ELSE [runs[r] EXCEPT
                    !.dir_read = dirMeta.modified,
                    !.pc = IF has_changed(runs[r].search_dir, dirMeta)
                           THEN "scan" ELSE "check"]]
    /\ UNCHANGED <<envVars, configVars, is_started, calls>>

AfterPublish_Unwrap(send_ok) == IF send_ok THEN "check" ELSE "panicked"

\* the results of the send() calls are dropped (let _ =): the loop goes on
\* whether the messages were queued or not
AfterPublish(send_ok) == "check"

\* scan, diff, publish, sleep
PollerCycle(r) ==
    /\ runs[r].pc = "scan"
    /\ CanSend(runs[r])
    /\ IF overflow_checks /\ Overflows(runs[r].search_dir)
       THEN runs' = [runs EXCEPT ![r].pc = "panicked",
                                 ![r].panic = Some("overflow")]
       ELSE
       \E latest_files \in
              {get_files(runs[r].search_dir, runs[r].notify_filters, disk)},
          scanned \in {SearchDirGetFiles(runs[r].search_dir, disk)} :
           \E deleted_order \in
                  IterationOrders(deleted_files(runs[r].all_files, latest_files)) :
              \E c \in {Cycle(runs[r].all_files, latest_files, deleted_order)} :
                  runs' = [runs EXCEPT ![r] =
                      [Send(runs[r], c.messages) EXCEPT
                          !.all_files = c.all_files,
                          !.seen = scanned,
                          !.cycle = [c EXCEPT !.seen_before = runs[r].seen,
                                              !.seen = scanned],
                          !.pc = AfterPublish(ReceiverAlive(runs[r])
                                                \/ c.messages = <<>>)]]
    /\ UNCHANGED <<envVars, configVars, is_started, calls>>

(***************************************************************************)
(* The Notifier thread of run r.                                           *)
(***************************************************************************)
CallbackOf(kind) ==
    CASE kind = "CREATE" -> "on_created"
      [] kind = "CHANGE" -> "on_changed"
      [] kind = "DELETE" -> "on_deleted"
      [] kind = "RENAME" -> "on_renamed"

Dispatch_Unregistered(cbs, msg) ==
    IF msg.kind # "EXIT"
    THEN <<[callback |-> CallbackOf(msg.kind), files |-> msg.data]>>
    ELSE <<>>

\* the callbacks the Notifier calls: those start() copied into the thread
CapturedCallbacks_Shared(run) == callbacks
CapturedCallbacks(run) == run.callbacks

\* the calls of callbacks one received message leads to
Dispatch(cbs, msg) ==
    IF msg.kind # "EXIT" /\ cbs[CallbackOf(msg.kind)]
    THEN <<[callback |-> CallbackOf(msg.kind), files |-> msg.data]>>
    ELSE <<>>

\* recv() returns the oldest message of the channel
Recv(chan) == [value |-> Head(chan), rest |-> Tail(chan)]

NotifierRecv(r) ==
    /\ runs[r].npc = "recv"
    /\ runs[r].chan # <<>>
    /\ LET got == Recv(runs[r].chan)
       IN  runs' = [runs EXCEPT
               ![r].chan = got.rest,
               ![r].invoked = runs[r].invoked \o Dispatch(CapturedCallbacks(runs[r]), got.value),
               ![r].npc = IF got.value.kind = "EXIT" THEN "done" ELSE "recv"]
    /\ UNCHANGED <<envVars, configVars, is_started, calls>>

\* recv() returns a message whose callback is registered, and the callback
\* panics: the thread unwinds and drops the Receiver with what is queued
NotifierPanic(r) ==
    /\ runs[r].npc = "recv"
    /\ runs[r].chan # <<>>
    /\ Dispatch(CapturedCallbacks(runs[r]), Recv(runs[r].chan).value) # <<>>
    /\ runs' = [runs EXCEPT
           ![r].chan = <<>>,
           ![r].invoked = runs[r].invoked
                            \o Dispatch(CapturedCallbacks(runs[r]), Recv(runs[r].chan).value),
           ![r].npc = "panicked"]
    /\ UNCHANGED <<envVars, configVars, is_started, calls>>

\* recv() returns a message whose callback is registered, and the callback
\* does not return: the thread stays in it, holding the Receiver
NotifierHang(r) ==
    /\ runs[r].npc = "recv"
    /\ runs[r].chan # <<>>
    /\ Dispatch(CapturedCallbacks(runs[r]), Recv(runs[r].chan).value) # <<>>
    /\ runs' = [runs EXCEPT
           ![r].chan = Recv(runs[r].chan).rest,
           ![r].invoked = runs[r].invoked
                            \o Dispatch(CapturedCallbacks(runs[r]), Recv(runs[r].chan).value),
           ![r].npc = "hung"]
    /\ UNCHANGED <<envVars, configVars, is_started, calls>>

(***************************************************************************)
(* The watcher with its threads and the filesystem.                        *)
(***************************************************************************)
Threads ==
    \/ \E r \in DOMAIN runs : PollerNew(r)
    \/ \E r \in DOMAIN runs : PollerLoad(r)
    \/ \E r \in DOMAIN runs : PollerSync(r)
    \/ \E r \in DOMAIN runs : PollerCheck(r)
    \/ \E r \in DOMAIN runs : PollerPreCheck(r)
    \/ \E r \in DOMAIN runs : PollerCycle(r)
    \/ \E r \in DOMAIN runs : NotifierRecv(r)

\* the watcher through its whole life: start(), stop() and restarts, with
\* every thread they spawn and one file coming and going
Next ==
    \/ EntryOps(MaxFsOps, MainNames)
    \/ Start(MaxCalls)
    \/ Stop(MaxCalls)
    \/ Threads

Spec == Init /\ [][Next]_vars

(***************************************************************************)
(* SpecWatch: one run of a started watcher over a changing directory.      *)
(* It begins in the state in which start() has just returned true.         *)
(***************************************************************************)
Started ==
    /\ is_started = TRUE
    /\ runs = <<NewRun>>
    /\ calls = <<[op |-> "start", before |-> FALSE, ret |-> TRUE, after |-> TRUE]>>

InitWatch ==
    /\ Constructed
    /\ PlainTree
    /\ now = 1
    /\ \E d \in InitialDirs : disk = d.disk /\ dirMeta = d.meta
    /\ fsOps = 0
    /\ filter = Some(FilterTxtPdf)
    /\ notify_filters = LastWrite
    /\ callbacks = AllCallbacks
    /\ Started

NextWatch ==
    \/ FileSystem(WatchFsOps, MainNames)
    \/ TouchDir(WatchFsOps)
    \/ Threads

SpecWatch == InitWatch /\ [][NextWatch]_vars

(***************************************************************************)
(* SpecDiff: one cycle of the Poller from every baseline to every scan.    *)
(* It begins with the Poller about to scan: the baseline is any set of     *)
(* files, the directory holds any set of files.                            *)
(***************************************************************************)
NameC == <<"d", ".", "p", "d", "f">>
NameD == <<"n", ".", "t", "x", "t">>
DiffNameList == <<NameA, NameB, NameC, NameD, NamePng>>
DiffNameSet == {DiffNameList[i] : i \in 1..Min({DiffNames, Len(DiffNameList)})}

\* the modified timestamps of the files of SpecDiff: the diff only tests
\* two timestamps for equality
DiffStamps == {1, 2}

\* the sets of File records over DiffNameSet, one record per name at most
DiffSnapshots ==
    LET Choice == [DiffNameSet -> DiffStamps \cup {0}]
    IN  {{File(n, c[n], 1, 1) : n \in {x \in DiffNameSet : c[x] # 0}} :
            c \in Choice}

Scanning(all_files) ==
    [NewRun EXCEPT !.pc = "scan",
                   !.search_dir = SearchDirNew(dir_depth, filter, Metadata(0, 0, 0)),
                   !.all_files = all_files,
                   !.seen = all_files,
                   !.dir_read = dirMeta.modified]

InitDiff ==
    /\ Constructed
    /\ PlainTree
    /\ now = Max(DiffStamps)
    /\ disk \in DiffSnapshots
    /\ dirMeta = Metadata(Max(DiffStamps), 0, 0)
    /\ fsOps = 0
    /\ filter = Some(FilterTxtPdf)
    /\ notify_filters = LastWrite
    /\ callbacks = AllCallbacks
    /\ is_started = TRUE
    /\ \E all_files \in DiffSnapshots : runs = <<Scanning(all_files)>>
    /\ calls = <<[op |-> "start", before |-> FALSE, ret |-> TRUE, after |-> TRUE]>>

NextDiff ==
    \/ \E r \in DOMAIN runs : PollerCycle(r)
    \/ \E r \in DOMAIN runs : NotifierRecv(r)

SpecDiff == InitDiff /\ [][NextDiff]_vars

(***************************************************************************)
(* The started watcher of SpecWatch with a.txt left alone: the filesystem  *)
(* operations are on other files of the directory.                         *)
(***************************************************************************)
OtherFsOps == 2

OtherNames == {NameB, NameD}

NextOther ==
    \/ FileSystem(OtherFsOps, OtherNames)
    \/ TouchDir(OtherFsOps)
    \/ Threads

SpecOther == InitWatch /\ [][NextOther]_vars

(***************************************************************************)
(* SpecScan: SearchDir::new and the first scan, for every filter           *)
(* expression of up to MaxTokens tokens over a directory of files with     *)
(* assorted names.  It begins in the state in which start() has just       *)
(* returned true.                                                          *)
(***************************************************************************)
TokAll == <<"*", ".", "*">>
TokTxt == <<"*", ".", "t", "x", "t">>
TokPdf == <<"*", ".", "p", "d", "f">>
TokATxt == NameA
TokBare == <<"t", "x", "t">>
ScanTokens == {TokAll, TokTxt, TokPdf, TokATxt, TokBare, EMPTY_STRING}

RECURSIVE Join(_, _)
Join(tokens, sep) ==
    IF Len(tokens) = 1 THEN tokens[1]
    ELSE tokens[1] \o <<sep>> \o Join(Tail(tokens), sep)

ScanFilters ==
    {None} \cup
    {Some(Join(ts, sep)) :
        ts \in UNION {[1..k -> ScanTokens] : k \in 1..MaxTokens},
        sep \in FILTER_SEPARATORS}

NameT == <<"a", ".", "t">>
NameBPdf == <<"b", ".", "p", "d", "f">>
NameNoExt == <<"a">>
ScanNames == {NameA, NamePng, NameT, NameBPdf, NameNoExt}

InitScan ==
    /\ Constructed
    /\ PlainTree
    /\ now = 1
    /\ disk = {File(n, 1, 1, 1) : n \in ScanNames}
    /\ dirMeta = Metadata(1, 0, 0)
    /\ fsOps = 0
    /\ filter \in ScanFilters
    /\ notify_filters = LastWrite
    /\ callbacks = AllCallbacks
    /\ Started

NextScan ==
    \/ \E r \in DOMAIN runs : PollerNew(r)
    \/ \E r \in DOMAIN runs : PollerLoad(r)

SpecScan == InitScan /\ [][NextScan]_vars

(***************************************************************************)
(* SpecDepth: SearchDir::new and the first scan of a directory tree, for   *)
(* every dir_depth, in both builds.  It begins in the state in which       *)
(* start() has just returned true.                                         *)
(***************************************************************************)
\* name in the directory k levels below the root: s/s/../name
RECURSIVE Nested(_, _)
Nested(name, k) ==
    IF k = 0 THEN name ELSE <<"s", PATH_SEP>> \o Nested(name, k - 1)

DepthPaths ==
    {Nested(NameA, k) : k \in 0..DepthLevels} \cup {Nested(NamePng, 1)}

\* the values with_directory_depth(u8) is given, and dir_depth unset
DepthValues ==
    {None} \cup {Some(d) : d \in 0..DepthLevels}
           \cup {Some(U8_MAX - 1), Some(U8_MAX)}

InitDepth ==
    /\ PlainTree
    /\ root = "dir"
    /\ watcher = "built"
    /\ dir_depth \in DepthValues
    /\ overflow_checks \in BOOLEAN
    /\ now = 1
    /\ \E paths \in SUBSET DepthPaths : disk = {File(p, 1, 1, 1) : p \in paths}
    /\ dirMeta = Metadata(1, 0, 0)
    /\ fsOps = 0
    /\ filter = Some(FilterTxtPdf)
    /\ notify_filters = LastWrite
    /\ callbacks = AllCallbacks
    /\ Started

NextDepth ==
    \/ \E r \in DOMAIN runs : PollerNew(r)
    \/ \E r \in DOMAIN runs : PollerLoad(r)

SpecDepth == InitDepth /\ [][NextDepth]_vars

(***************************************************************************)
(* The scan of a tree that holds entries other than regular files, and     *)
(* directories that cannot be read.                                        *)
(***************************************************************************)
TreeLevels == 2

NameLink == <<"l", "n", "k">>

TreeFiles ==
    {Nested(NameA, k) : k \in 0..TreeLevels} \cup {Nested(NamePng, 1)}

\* entries that are neither regular files nor directories
TreeLinks == {Nested(NameLink, k) : k \in 0..1}

\* the directories below the root
TreeDirs == {Nested(<<>>, k) : k \in 1..TreeLevels}

InitTree ==
    /\ root = "dir"
    /\ watcher = "built"
    /\ dir_depth \in {None} \cup {Some(d) : d \in 0..TreeLevels}
    /\ overflow_checks = TRUE
    /\ now = 1
    /\ \E paths \in SUBSET (TreeFiles \cup TreeLinks) :
          /\ disk = {File(p, 1, 1, 1) : p \in paths}
          /\ special = paths \cap TreeLinks
    /\ unreadable \in SUBSET TreeDirs
    /\ dirMeta = Metadata(1, 0, 0)
    /\ fsOps = 0
    /\ filter = Some(FilterTxtPdf)
    /\ notify_filters = LastWrite
    /\ callbacks = AllCallbacks
    /\ Started

NextTree ==
    \/ \E r \in DOMAIN runs : PollerNew(r)
    \/ \E r \in DOMAIN runs : PollerLoad(r)

SpecTree == InitTree /\ [][NextTree]_vars

(***************************************************************************)
(* SpecNotify: one cycle of the Poller under every notify mask, between    *)
(* two states of the directory that differ in any of the three timestamps  *)
(* of its files.  The baseline is what a scan of the earlier state kept.   *)
(***************************************************************************)
NotifyNameSet == {DiffNameList[i] : i \in 1..Min({NotifyNames, Len(DiffNameList)})}

\* the bits the masks are tested for are those of 0..7, the values of the
\* NotifyFilters constants
NotifyMasks ==
    {Attributes, CreationTime, DirectoryName, FileName, LastAccess, LastWrite,
     Security, Size}

\* the sets of File records over NotifyNameSet, one record per name at most,
\* each timestamp one of DiffStamps
NotifySnapshots ==
    LET Stamps == [{"modified", "accessed", "created"} -> DiffStamps]
        Choice == [NotifyNameSet -> Stamps \cup {<<>>}]
    IN  {{File(n, c[n]["modified"], c[n]["accessed"], c[n]["created"]) :
              n \in {x \in NotifyNameSet : c[x] # <<>>}} : c \in Choice}

\* the earlier states of the directory: the timestamps are only tested for
\* equality, so the earlier ones are all taken to be Min(DiffStamps)
NotifyEarlier ==
    {{File(n, Min(DiffStamps), Min(DiffStamps), Min(DiffStamps)) : n \in names} :
        names \in SUBSET NotifyNameSet}

InitNotify ==
    /\ Constructed
    /\ PlainTree
    /\ now = Max(DiffStamps)
    /\ disk \in NotifySnapshots
    /\ dirMeta = Metadata(Max(DiffStamps), 0, 0)
    /\ fsOps = 0
    /\ filter = Some(FilterTxtPdf)
    /\ notify_filters \in NotifyMasks
    /\ callbacks = AllCallbacks
    /\ is_started = TRUE
    /\ \E earlier \in NotifyEarlier :
          runs = <<Scanning(get_files(
                      SearchDirNew(dir_depth, filter, Metadata(0, 0, 0)),
                      notify_filters, earlier))>>
    /\ calls = <<[op |-> "start", before |-> FALSE, ret |-> TRUE, after |-> TRUE]>>

NextNotify ==
    \/ \E r \in DOMAIN runs : PollerCycle(r)
    \/ \E r \in DOMAIN runs : NotifierRecv(r)

SpecNotify == InitNotify /\ [][NextNotify]_vars

(***************************************************************************)
(* One run with any set of callbacks registered: a cycle over a changed    *)
(* directory, the Notifier, and stop().                                    *)
(***************************************************************************)
DispatchNames == 2
DispatchCalls == 2

DispatchNameSet == {DiffNameList[i] : i \in 1..Min({DispatchNames, Len(DiffNameList)})}

\* each of on_created, on_changed, on_deleted, on_renamed is Some or None
CallbackSets == [DOMAIN AllCallbacks -> BOOLEAN]

\* the baseline: files of an earlier time
DispatchEarlier ==
    {{File(n, Min(DiffStamps), Min(DiffStamps), Min(DiffStamps)) : n \in names} :
        names \in SUBSET DispatchNameSet}

\* the directory now: files written at the earlier time or later
DispatchDisks ==
    LET Choice == [DispatchNameSet -> DiffStamps \cup {0}]
    IN  {{File(n, c[n], Min(DiffStamps), Min(DiffStamps)) :
              n \in {x \in DispatchNameSet : c[x] # 0}} : c \in Choice}

InitDispatch ==
    /\ Constructed
    /\ PlainTree
    /\ now = Max(DiffStamps)
    /\ disk \in DispatchDisks
    /\ dirMeta = Metadata(Max(DiffStamps), 0, 0)
    /\ fsOps = 0
    /\ filter = Some(FilterTxtPdf)
    /\ notify_filters = LastWrite
    /\ callbacks \in CallbackSets
    /\ is_started = TRUE
    /\ \E earlier \in DispatchEarlier : runs = <<Scanning(earlier)>>
    /\ calls = <<[op |-> "start", before |-> FALSE, ret |-> TRUE, after |-> TRUE]>>

NextDispatch ==
    \/ Stop(DispatchCalls)
    \/ \E r \in DOMAIN runs : PollerCheck(r)
    \/ \E r \in DOMAIN runs : PollerPreCheck(r)
    \/ \E r \in DOMAIN runs : PollerCycle(r)
    \/ \E r \in DOMAIN runs : NotifierRecv(r)

SpecDispatch == InitDispatch /\ [][NextDispatch]_vars

(***************************************************************************)
(* A watcher whose callbacks are registered while it runs, and that is     *)
(* stopped and started again.                                              *)
(***************************************************************************)
ConfigCalls == 3
ConfigFsOps == 1

InitConfig ==
    /\ Constructed
    /\ PlainTree
    /\ now = 1
    /\ disk = {File(NameA, 1, 1, 1)}
    /\ dirMeta = Metadata(1, 0, 0)
    /\ fsOps = 0
    /\ filter = Some(FilterTxtPdf)
    /\ notify_filters = LastWrite
    /\ callbacks = OnlyOnChanged
    /\ is_started = FALSE
    /\ runs = <<>>
    /\ calls = <<>>

NextConfig ==
    \/ \E slot \in DOMAIN callbacks : Register(slot)
    \/ Start(ConfigCalls)
    \/ Stop(ConfigCalls)
    \/ CreateFile(ConfigFsOps, NameB)
    \/ Threads

SpecConfig == InitConfig /\ [][NextConfig]_vars

(***************************************************************************)
(* SpecLife: the watcher from before its construction: FileWatcher::new on *)
(* a path that is a directory, a file or missing, with a filter that is    *)
(* well-formed or not, then start() and the threads, while the directory   *)
(* changes and may be removed.                                             *)
(***************************************************************************)
\* "*.txt;*.pdf", no filter, and "txt", which the grammar rejects
LifeFilters == {Some(FilterTxtPdf), None, Some(TokBare)}

InitLife ==
    /\ PlainTree
    /\ root \in {"dir", "file", "missing"}
    /\ watcher = "none"
    /\ dir_depth = None
    /\ overflow_checks = TRUE
    /\ now = 1
    /\ disk = IF root = "dir" THEN {File(NameA, 1, 1, 1)} ELSE {}
    /\ dirMeta = Metadata(1, 0, 0)
    /\ fsOps = 0
    /\ filter \in LifeFilters
    /\ notify_filters = LastWrite
    /\ callbacks = AllCallbacks
    /\ is_started = FALSE
    /\ runs = <<>>
    /\ calls = <<>>

NextLife ==
    \/ New
    \/ Start(LifeCalls)
    \/ EntryOps(LifeFsOps, MainNames)
    \/ RemoveRoot(LifeFsOps)
    \/ Threads

SpecLife == InitLife /\ [][NextLife]_vars

(***************************************************************************)
(* SpecFair: one run of a started watcher whose threads are scheduled:     *)
(* each thread that can take a step eventually takes one.  The callbacks   *)
(* may panic, and stop() may be called.                                    *)
(***************************************************************************)
InitFair ==
    /\ Constructed
    /\ PlainTree
    /\ now = 1
    /\ disk = {File(NameA, 1, 1, 1)}
    /\ dirMeta = Metadata(1, 0, 0)
    /\ fsOps = 0
    /\ filter = Some(FilterTxtPdf)
    /\ notify_filters = LastWrite
    /\ callbacks = AllCallbacks
    /\ Started

NextFair ==
    \/ EntryOps(FairFsOps, MainNames)
    \/ Stop(FairCalls)
    \/ Threads
    \/ \E r \in DOMAIN runs : NotifierPanic(r)

\* the steps of the Poller thread of run r
Poller(r) ==
    \/ PollerNew(r)
    \/ PollerLoad(r)
    \/ PollerSync(r)
    \/ PollerCheck(r)
    \/ PollerPreCheck(r)
    \/ PollerCycle(r)

\* both threads of the run are scheduled (thread::spawn, sleeps of
\* refresh_rate milliseconds, a blocking recv)
Fairness ==
    /\ WF_vars(\E r \in DOMAIN runs : Poller(r))
    /\ WF_vars(\E r \in DOMAIN runs : NotifierRecv(r) \/ NotifierPanic(r))

SpecFair == InitFair /\ [][NextFair]_vars /\ Fairness

(***************************************************************************)
(* The watcher of SpecLife with a stop() after its start(), both threads   *)
(* of the run scheduled and every callback returning.                      *)
(***************************************************************************)
StopCalls == 2

NextStop ==
    \/ NextLife
    \/ Stop(StopCalls)

StopFairness ==
    /\ WF_vars(\E r \in DOMAIN runs : Poller(r))
    /\ WF_vars(\E r \in DOMAIN runs : NotifierRecv(r))

SpecStop == InitLife /\ [][NextStop]_vars /\ StopFairness

(***************************************************************************)
(* One run whose Notifier may stay in a callback for ever, or may not be   *)
(* scheduled at all: only the Poller is taken to run.                      *)
(***************************************************************************)
HangCalls == 2
HangFsOps == 1

InitHang ==
    /\ Constructed
    /\ PlainTree
    /\ now = 1
    /\ disk = {File(NameA, 1, 1, 1)}
    /\ dirMeta = Metadata(1, 0, 0)
    /\ fsOps = 0
    /\ filter = Some(FilterTxtPdf)
    /\ notify_filters = LastWrite
    /\ callbacks = AllCallbacks
    /\ is_started = TRUE
    /\ runs = <<Scanning({})>>
    /\ calls = <<[op |-> "start", before |-> FALSE, ret |-> TRUE, after |-> TRUE]>>

NextHang ==
    \/ EntryOps(HangFsOps, MainNames)
    \/ Stop(HangCalls)
    \/ \E r \in DOMAIN runs : PollerCheck(r)
    \/ \E r \in DOMAIN runs : PollerPreCheck(r)
    \/ \E r \in DOMAIN runs : PollerCycle(r)
    \/ \E r \in DOMAIN runs : NotifierRecv(r)
    \/ \E r \in DOMAIN runs : NotifierHang(r)

\* the Poller thread is scheduled; nothing is assumed of the Notifier
PollerFairness == WF_vars(\E r \in DOMAIN runs : Poller(r))

SpecHang == InitHang /\ [][NextHang]_vars /\ PollerFairness

(***************************************************************************)
(* Properties.                                                             *)
(***************************************************************************)
Last(s) == s[Len(s)]

\* C1: start() returns true exactly when is_started is clear and leaves it
\* set, stop() returns true exactly when is_started is set and leaves it
\* clear, and nothing but start() and stop() changes is_started: each call
\* finds the flag as the previous call left it, whatever the threads did in
\* between.  So start(); start() on a fresh watcher returns (true, false),
\* and stop(); stop() on a running one returns (true, false).
C1_StartStopReturn ==
    /\ \A i \in DOMAIN calls :
          /\ calls[i].before = (IF i = 1 THEN FALSE ELSE calls[i - 1].after)
          /\ calls[i].op = "start" =>
                calls[i].ret = ~calls[i].before /\ calls[i].after = TRUE
          /\ calls[i].op = "stop" =>
                calls[i].ret = calls[i].before /\ calls[i].after = FALSE
    /\ is_started = (IF calls = <<>> THEN FALSE ELSE Last(calls).after)
    /\ (Len(calls) >= 2 /\ calls[1].op = "start" /\ calls[2].op = "start")
          => (calls[1].ret = TRUE /\ calls[2].ret = FALSE)
    /\ \A i \in DOMAIN calls :
          (i > 1 /\ calls[i].op = "stop" /\ calls[i - 1].op = "stop"
                 /\ calls[i - 1].before)
             => (calls[i - 1].ret = TRUE /\ calls[i].ret = FALSE)

\* start(); start(); stop() has returned true, false, true while the Poller
\* is in its loop
C1_Witness ==
    /\ Len(calls) = 3
    /\ <<calls[1].op, calls[2].op, calls[3].op>> = <<"start", "start", "stop">>
    /\ <<calls[1].ret, calls[2].ret, calls[3].ret>> = <<TRUE, FALSE, TRUE>>
    /\ runs[1].pc = "poll"

Disjoint(A, B) == NamesOf(A) \cap NamesOf(B) = {}

FileBatches(messages) ==
    {i \in DOMAIN messages : messages[i].kind \in {"CREATE", "CHANGE", "DELETE"}}

\* C2: in every cycle the created, changed and deleted sets share no path,
\* as first computed, as left after the rename correlation, and as sent.
C2_Disjoint ==
    \A r \in DOMAIN runs :
        LET c == runs[r].cycle
        IN  c.ran =>
              /\ Disjoint(c.created0, c.changed_files)
              /\ Disjoint(c.created0, c.deleted0)
              /\ Disjoint(c.changed_files, c.deleted0)
              /\ Disjoint(c.created_files, c.changed_files)
              /\ Disjoint(c.created_files, c.deleted_files)
              /\ Disjoint(c.changed_files, c.deleted_files)
              /\ \A i, j \in FileBatches(c.messages) :
                    i # j => Disjoint(c.messages[i].data, c.messages[j].data)

\* a cycle that sent a Created, a Changed and a Deleted batch
C2_Witness ==
    \E r \in DOMAIN runs :
        /\ runs[r].cycle.ran
        /\ Cardinality(FileBatches(runs[r].cycle.messages)) = 3

\* the cycle went from the one-file baseline {a} to the one-file scan {b},
\* another name with the same modified timestamp
IsRenameCycle(c, a, b) ==
    /\ c.ran
    /\ c.before = {a}
    /\ c.latest_files = {b}
    /\ a.name # b.name
    /\ a.last_modified = b.last_modified

Messages(sent) == [i \in DOMAIN sent |-> sent[i].msg]

\* C3: a cycle from baseline {A} to scan {B}, B # A with A's modified
\* timestamp, sends the one message Renamed {(B, A)} and no Created or
\* Deleted batch; the Notifier calls on_renamed once with that batch, when
\* it has received it, and calls no other callback.
C3_RenameOnly ==
    \A r \in DOMAIN runs :
        \A a \in runs[r].cycle.before, b \in runs[r].cycle.latest_files :
            IsRenameCycle(runs[r].cycle, a, b) =>
                LET batch == {RenamedFileEntry(b.name, a.name)}
                IN  /\ runs[r].cycle.messages = <<CONTINUE("RENAME", batch)>>
                    /\ Messages(runs[r].sent) = runs[r].cycle.messages
                    /\ runs[r].invoked =
                          IF runs[r].chan = <<>> /\ runs[r].callbacks.on_renamed
                          THEN <<[callback |-> "on_renamed", files |-> batch]>>
                          ELSE <<>>

\* the Renamed batch of such a cycle has been handed to on_renamed
C3_Witness ==
    \E r \in DOMAIN runs :
        /\ \E a \in runs[r].cycle.before, b \in runs[r].cycle.latest_files :
              IsRenameCycle(runs[r].cycle, a, b)
        /\ runs[r].chan = <<>>
        /\ Len(runs[r].invoked) = 1

DataOf(messages, kind) ==
    UNION {messages[i].data : i \in {j \in DOMAIN messages : messages[j].kind = kind}}

\* C4: no file of a cycle's Created batch is the new name of a pair of its
\* Renamed batch, and no file of its Deleted batch is the old name of one.
C4_RenamedRemoved ==
    \A r \in DOMAIN runs :
        LET c == runs[r].cycle
        IN  c.ran =>
              \A v \in DataOf(c.messages, "RENAME") :
                  /\ v.name \notin NamesOf(DataOf(c.messages, "CREATE"))
                  /\ v.old_name \notin NamesOf(DataOf(c.messages, "DELETE"))
                  /\ v.name \notin NamesOf(c.created_files)
                  /\ v.old_name \notin NamesOf(c.deleted_files)

\* a cycle that sent a Created, a Deleted and a Renamed batch
C4_Witness ==
    \E r \in DOMAIN runs :
        /\ runs[r].cycle.ran
        /\ DataOf(runs[r].cycle.messages, "RENAME") # {}
        /\ DataOf(runs[r].cycle.messages, "CREATE") # {}
        /\ DataOf(runs[r].cycle.messages, "DELETE") # {}

\* C5: after a cycle the paths of the baseline are those of
\* (baseline_before - deleted - renamed.old) + created + renamed.new, which
\* are the paths of the latest scan, and every changed file is in the
\* baseline with the modified timestamp of the latest scan.
C5_BaselineUpdate ==
    \A r \in DOMAIN runs :
        LET c == runs[r].cycle
            expected ==
                ((NamesOf(c.before) \ NamesOf(c.deleted_files))
                    \ {v.old_name : v \in c.renamed_files})
                \cup NamesOf(c.created_files)
                \cup {v.name : v \in c.renamed_files}
        IN  (c.ran /\ runs[r].pc = "check") =>
              /\ NamesOf(runs[r].all_files) = expected
              /\ NamesOf(runs[r].all_files) = NamesOf(c.latest_files)
              /\ Cardinality(runs[r].all_files) = Cardinality(expected)
              /\ \A f \in c.changed_files :
                    \E g \in runs[r].all_files :
                        /\ g.name = f.name
                        /\ g.last_modified = f.last_modified
                        /\ \E old \in c.before :
                              old.name = f.name /\ old.last_modified # g.last_modified

\* a cycle with a changed, a deleted and a renamed file
C5_Witness ==
    \E r \in DOMAIN runs :
        /\ runs[r].cycle.ran
        /\ runs[r].pc = "check"
        /\ runs[r].cycle.changed_files # {}
        /\ runs[r].cycle.deleted_files # {}
        /\ runs[r].cycle.renamed_files # {}

\* C6: a cycle whose scan finds the filter-matching files of the directory,
\* with all their timestamps, as the previous scan (or the baseline load)
\* found them, sends no message.
C6_NoOpStable ==
    \A r \in DOMAIN runs :
        (runs[r].cycle.ran /\ runs[r].cycle.seen_before = runs[r].cycle.seen)
            => runs[r].cycle.messages = <<>>

Rank(kind) ==
    CASE kind = "CREATE" -> 1
      [] kind = "CHANGE" -> 2
      [] kind = "DELETE" -> 3
      [] kind = "RENAME" -> 4
      [] kind = "EXIT" -> 5

RECURSIVE DispatchAll(_, _)
DispatchAll(cbs, messages) ==
    IF messages = <<>> THEN <<>>
    ELSE Dispatch(cbs, Head(messages)) \o DispatchAll(cbs, Tail(messages))

Received(run) == SubSeq(Messages(run.sent), 1, Len(run.sent) - Len(run.chan))

C8_StopObserved ==
    [][\A r \in DOMAIN runs :
          (runs[r].stop_requested /\ runs[r].pc = "check" /\ runs'[r].pc # "check")
             => (runs'[r].pc = "done" /\ Last(runs'[r].sent).msg = EXIT)]_vars

\* the tokens of the run's filter expression
TokensOf(run) == split_extensions(Unwrap(run.filter))

TokenSet(run) == {TokensOf(run)[i] : i \in DOMAIN TokensOf(run)}

Loaded(run) == run.pc = "sync"

\* the filter is made of *.ext tokens only
IsExtensionFilter(run) ==
    /\ run.filter # None
    /\ \A tok \in TokenSet(run) :
          /\ tok # ALL_FILES_FILTER
          /\ VALID_FILTER_REGEX_PATH(tok)
          /\ StartsWith(tok, <<"*">>)

ExtensionSet(run) == {ExtOfToken(tok) : tok \in TokenSet(run)}

\* C9: under a filter of *.ext tokens, such as "*.txt;*.pdf", a file is
\* tracked iff its extension is a member of the extension set.
C9_ExtensionMember ==
    \A r \in DOMAIN runs :
        (Loaded(runs[r]) /\ IsExtensionFilter(runs[r])) =>
            \A f \in disk :
                (f \in runs[r].all_files) <=>
                    (/\ PathExtension(f.name) # None
                     /\ Unwrap(PathExtension(f.name)) \in ExtensionSet(runs[r]))

\* C10: under a filter that is not include-all, a file whose name is a
\* name.ext token of the filter is tracked.
C10_FileNameToken ==
    \A r \in DOMAIN runs :
        (Loaded(runs[r]) /\ runs[r].filter # None
            /\ ~runs[r].search_dir.include_all_files) =>
            \A f \in disk :
                f.name \in TokenSet(runs[r]) => f \in runs[r].all_files

\* the number of directory levels between the root and the file
Level(path) == Cardinality(SepPositions(path))

\* C11: for every dir_depth d, the scan does not fail, and it returns a file
\* the filter matches iff the file lies at most d directory levels below
\* the root.
C11_DepthBound ==
    \A r \in DOMAIN runs :
        /\ runs[r].panic # Some("overflow")
        /\ (Loaded(runs[r]) /\ runs[r].depth # None) =>
              runs[r].seen =
                  {f \in disk :
                      /\ EntryFilter(runs[r].search_dir, FileNameOf(f.name))
                      /\ Level(f.name) <= Unwrap(runs[r].depth)}

\* the baseline record and the latest record of one file differ in the
\* accessed timestamp only as far as the modified timestamp goes
AccessedOnly(fe, f) ==
    /\ fe.name = f.name
    /\ fe.last_accessed # f.last_accessed
    /\ fe.last_modified = f.last_modified

\* C12: under the mask LastWrite, a file of the baseline and of the latest
\* scan whose accessed timestamp differs and whose modified timestamp is
\* equal is not in the cycle's changed set, not in its Changed batch, and is
\* not handed to on_changed.
C12_LastWriteGating ==
    \A r \in DOMAIN runs :
        (runs[r].notify_filters = LastWrite /\ runs[r].cycle.ran) =>
            \A fe \in runs[r].cycle.before, f \in runs[r].cycle.latest_files :
                AccessedOnly(fe, f) =>
                    /\ f.name \notin NamesOf(runs[r].cycle.changed_files)
                    /\ f.name \notin NamesOf(DataOf(runs[r].cycle.messages, "CHANGE"))
                    /\ \A i \in DOMAIN runs[r].invoked :
                          runs[r].invoked[i].callback = "on_changed" =>
                              f.name \notin NamesOf(runs[r].invoked[i].files)

\* a cycle under the mask LastWrite found such a file
C12_Witness ==
    \E r \in DOMAIN runs :
        /\ runs[r].notify_filters = LastWrite
        /\ runs[r].cycle.ran
        /\ \E fe \in runs[r].cycle.before, f \in runs[r].cycle.latest_files :
              AccessedOnly(fe, f)

\* the rule of the notify-filter evaluator, between the baseline record and
\* the latest record of a file
Qualifies(mask, fe, f) ==
    \/ /\ Contains(mask, LastWrite) \/ Contains(mask, FileName)
       /\ fe.last_modified # f.last_modified
    \/ /\ Contains(mask, LastAccess)
       /\ fe.last_accessed # f.last_accessed
    \/ /\ Contains(mask, CreationTime)
       /\ fe.created # f.created

\* C13: under every mask, a file of the baseline and of the latest scan is
\* in the cycle's changed set iff the evaluator's rule holds between its
\* baseline record and its latest record.
C13_ChangedIff ==
    \A r \in DOMAIN runs :
        runs[r].cycle.ran =>
            \A fe \in runs[r].cycle.before, f \in runs[r].cycle.latest_files :
                fe.name = f.name =>
                    ((f \in runs[r].cycle.changed_files)
                        <=> Qualifies(runs[r].notify_filters, fe, f))

\* the ERROR messages a run has sent
Errors(run) == {i \in DOMAIN run.sent : run.sent[i].msg.kind = "ERROR"}

\* C14: a Poller that finds the root directory gone does not panic; it
\* sends one ERROR message, as its last message, and terminates.
C14_RootGoneError ==
    \A r \in DOMAIN runs :
        /\ runs[r].panic # Some("metadata")
        /\ ~(runs[r].panic = Some("root") /\ root = "missing")
        /\ Cardinality(Errors(runs[r])) <= 1
        /\ Errors(runs[r]) # {} =>
              (runs[r].pc = "done" /\ Len(runs[r].sent) \in Errors(runs[r]))

\* every token of the filter expression matches the grammar
WellFormed(flt) ==
    flt = None \/ \A tok \in {split_extensions(Unwrap(flt))[i] :
                                  i \in DOMAIN split_extensions(Unwrap(flt))} :
                     VALID_FILTER_REGEX_PATH(tok)

\* C15: a watcher that construction returned has a well-formed filter, and
\* no Poller thread fails on the filter expression.
C15_FilterRejected ==
    /\ watcher = "built" => WellFormed(filter)
    /\ \A r \in DOMAIN runs : runs[r].panic # Some("filter")

\* C16: construction returns a watcher when the root path is a directory,
\* and fails when the path is missing or is not a directory.
C16_RootRejected ==
    [][(watcher = "none" /\ watcher' # "none")
          => (watcher' = "built" <=> root = "dir")]_vars

\* C19: in the renamed pairs of a cycle no deleted file is the old name of
\* two pairs and no created file is the new name of two pairs.
C19_PairingInjective ==
    \A r \in DOMAIN runs :
        runs[r].cycle.ran =>
            \A v, w \in runs[r].cycle.renamed_files :
                /\ v.old_name = w.old_name => v = w
                /\ v.name = w.name => v = w

\* C20: the Poller goes from the pre-check to the scan only when the
\* directory's modified timestamp differs from the one the thread read at
\* the previous cycle's pre-check (at sync_metadata, for the first cycle).
C20_PreCheckGate ==
    [][\A r \in DOMAIN runs :
          (runs[r].pc = "poll" /\ runs'[r].pc = "scan")
             => runs[r].dir_read # dirMeta.modified]_vars

\* the Poller of the run is in its loop
InLoop(run) == run.pc \in {"check", "poll", "scan"}

\* what holds of a run whose Notifier has died in a callback
SurvivesPanic(run) ==
    run.npc = "panicked" =>
        /\ run.pc # "panicked"
        /\ (run.cycle.ran /\ run.pc = "check") =>
              /\ NamesOf(run.all_files) = NamesOf(run.cycle.latest_files)
              /\ Len(run.sent) >= Len(run.cycle.messages)
              /\ SubSeq(Messages(run.sent),
                        Len(run.sent) - Len(run.cycle.messages) + 1,
                        Len(run.sent)) = run.cycle.messages

\* C17: after a callback has panicked the Poller does not fail: a cycle
\* leaves the baseline at the latest scan and sends its messages (the
\* channel does not take them); and after stop() the Poller sends EXIT and
\* terminates.
C17_PollerSurvives ==
    /\ [](\A r \in DOMAIN runs : SurvivesPanic(runs[r]))
    /\ (runs[1].npc = "panicked" /\ runs[1].stop_requested)
          ~> (runs[1].pc = "done" /\ Last(runs[1].sent).msg = EXIT)

\* the Poller has terminated after stop(), having sent a message of a cycle
\* that the channel did not take
C17_Witness ==
    \E r \in DOMAIN runs :
        /\ runs[r].npc = "panicked"
        /\ runs[r].pc = "done"
        /\ \E i \in DOMAIN runs[r].sent :
              ~runs[r].sent[i].queued /\ runs[r].sent[i].msg # EXIT

\* the file named n is in the baseline and on disk with another modified
\* timestamp, while the Poller is in its loop
Written(n) ==
    /\ InLoop(runs[1])
    /\ \E f \in disk, fe \in runs[1].all_files :
          f.name = n /\ fe.name = n /\ fe.last_modified # f.last_modified

\* on_changed has been called with the file named n as it is on disk
Delivered(n) ==
    \E i \in DOMAIN runs[1].invoked :
        /\ runs[1].invoked[i].callback = "on_changed"
        /\ \E g \in runs[1].invoked[i].files : g.name = n /\ g \in disk

\* C18: when the modified timestamp of a tracked file has changed, then
\* on_changed is eventually called with the file, unless the file leaves the
\* disk, the watcher is stopped or the Notifier has died.
C18_ChangeDelivered ==
    \A n \in MainNames :
        Written(n) ~> (\/ Delivered(n)
                       \/ n \notin NamesOf(disk)
                       \/ ~is_started
                       \/ runs[1].npc # "recv")


\* The eight dimensions a mask is built from
Dimensions ==
    {Attributes, CreationTime, DirectoryName, FileName, LastAccess, LastWrite,
     Security, Size}

\* C21: the dimensions are independent members of the mask: whenever the mask
\* a run was started with is the OR-combination of a set S of dimensions, it
\* contains a dimension d iff d is in S
C21_Independent ==
    \A r \in DOMAIN runs : \A S \in SUBSET Dimensions :
        runs[r].notify_filters = OrAll(S) =>
            \A d \in Dimensions : Contains(runs[r].notify_filters, d) <=> d \in S


\* C22: under every mask, the created set of a cycle is the files of the scan
\* of the disk (path filter and depth bound only) that are absent from the
\* baseline, and its deleted set is the baseline files that this scan no
\* longer finds.
C22_MaskOnlyChanged ==
    \A r \in DOMAIN runs :
        runs[r].cycle.ran =>
            /\ NamesOf(runs[r].cycle.created0)
                 = NamesOf(runs[r].cycle.seen) \ NamesOf(runs[r].cycle.before)
            /\ NamesOf(runs[r].cycle.deleted0)
                 = NamesOf(runs[r].cycle.before) \ NamesOf(runs[r].cycle.seen)


\* C23: a filter expression is rejected when the watcher's threads parse it
\* iff at least one of its tokens matches none of the forms *.*, *.ext,
\* name.ext
C23_RejectIff ==
    \A r \in DOMAIN runs :
        (runs[r].pc # "new" /\ runs[r].filter # None) =>
            ((runs[r].panic = Some("filter"))
                <=> \E tok \in TokenSet(runs[r]) : ~VALID_FILTER_REGEX_PATH(tok))


\* the path lies in or below a directory that cannot be read
UnderUnreadable(path) == \E d \in unreadable : StartsWith(path, d)

\* the path lies within the depth bound of the run
WithinDepth(run, path) ==
    run.depth = None \/ Level(path) <= Unwrap(run.depth)

\* a regular file the scan of the run is to return
Expected(run, f) ==
    /\ IsFile(f.name)
    /\ EntryFilter(run.search_dir, FileNameOf(f.name))
    /\ WithinDepth(run, f.name)
    /\ ~UnderUnreadable(f.name)

\* C24: a scan result holds regular files only, and the directories within
\* the depth bound are descended into whatever the path filter is: every
\* regular file the filter matches, in a readable directory within the
\* bound, is in the result.
C24_OnlyRegularFiles ==
    \A r \in DOMAIN runs :
        Loaded(runs[r]) =>
            /\ \A f \in runs[r].seen : f \in disk /\ IsFile(f.name)
            /\ \A f \in disk : Expected(runs[r], f) => f \in runs[r].seen

KindCallback ==
    [CREATE |-> "on_created", CHANGE |-> "on_changed", DELETE |-> "on_deleted",
     RENAME |-> "on_renamed"]

\* the positions, among the messages a run's Notifier has received, of the
\* batches whose callback is registered
Handled(run) ==
    {i \in DOMAIN Received(run) :
        /\ Received(run)[i].kind # "EXIT"
        /\ run.callbacks[KindCallback[Received(run)[i].kind]]}

\* C26: the calls a run's Notifier has made are, in the order of the
\* messages received, one call per batch whose kind has a callback
\* registered, of that callback with that batch; a batch whose kind has no
\* callback leads to no call; and the Notifier has terminated iff it has
\* received Exit.
C26_DispatchByKind ==
    \A r \in DOMAIN runs :
        /\ Len(runs[r].invoked) = Cardinality(Handled(runs[r]))
        /\ \A i \in Handled(runs[r]) :
              runs[r].invoked[Cardinality({j \in Handled(runs[r]) : j <= i})]
                 = [callback |-> KindCallback[Received(runs[r])[i].kind],
                    files |-> Received(runs[r])[i].data]
        /\ (runs[r].npc = "done")
              <=> \E i \in DOMAIN Received(runs[r]) : Received(runs[r])[i] = EXIT

\* a Notifier with on_changed and without on_created has received a Created
\* batch, for which it called nothing, then a Changed batch, for which it
\* called on_changed, and then Exit
C26_Witness ==
    \E r \in DOMAIN runs :
        /\ ~runs[r].callbacks["on_created"]
        /\ runs[r].callbacks["on_changed"]
        /\ \E i, j \in DOMAIN Received(runs[r]) :
              /\ i < j
              /\ Received(runs[r])[i].kind = "CREATE"
              /\ Received(runs[r])[j].kind = "CHANGE"
        /\ Len(runs[r].invoked) = 1
        /\ runs[r].npc = "done"


\* C27: on the channel of a run, Exit is sent at most once and nothing is
\* sent after it; the channel holds Exit in its last place only; and a
\* Notifier that has terminated on Exit has received every batch the
\* Poller sent, each of them queued when it was sent.
C27_ExitLast ==
    \A r \in DOMAIN runs :
        LET s == Messages(runs[r].sent)
        IN  /\ Cardinality({i \in DOMAIN s : s[i] = EXIT}) <= 1
            /\ \A i \in DOMAIN s : s[i] = EXIT => i = Len(s)
            /\ \A i \in DOMAIN runs[r].chan :
                  runs[r].chan[i] = EXIT => i = Len(runs[r].chan)
            /\ runs[r].npc = "done" =>
                  /\ runs[r].pc = "done"
                  /\ runs[r].chan = <<>>
                  /\ Received(runs[r]) = s
                  /\ \A i \in DOMAIN runs[r].sent : runs[r].sent[i].queued

\* a Notifier has terminated on Exit after two batches
C27_Witness ==
    \E r \in DOMAIN runs :
        /\ runs[r].npc = "done"
        /\ Len(runs[r].sent) >= 3
        /\ Last(runs[r].sent).msg = EXIT


\* C28: the Poller never waits for the Notifier: in every state in which a
\* Poller is in its loop its next step is enabled, whatever the channel
\* holds and whether or not the Notifier is in a callback; and a run whose
\* Notifier stays in a callback, once stop() has returned true, leads to
\* the Poller having sent Exit and terminated.
C28_PollerNeverWaits ==
    /\ [](\A r \in DOMAIN runs : InLoop(runs[r]) => ENABLED Poller(r))
    /\ (runs[1].npc = "hung" /\ runs[1].stop_requested)
          ~> (runs[1].pc = "done" /\ Last(runs[1].sent).msg = EXIT)

\* the Notifier stays in a callback, the Poller has completed a further
\* cycle that queued a batch behind it, and has terminated after stop()
C28_Witness ==
    /\ runs[1].npc = "hung"
    /\ runs[1].published >= 2
    /\ Len(runs[1].chan) >= 2
    /\ runs[1].pc = "done"


\* the values a run's threads work with
Captured(run) ==
    [filter |-> run.filter, notify_filters |-> run.notify_filters,
     depth |-> run.depth, callbacks |-> run.callbacks]

\* C29: no step changes the filter, notify mask, depth or callbacks a run
\* works with; a run that start() adds works with the watcher's values at
\* that start(); and every call a run's Notifier has made is of a callback
\* the run was started with.
C29_CapturedAtStart ==
    /\ [][/\ \A r \in DOMAIN runs :
                /\ r \in DOMAIN runs'
                /\ Captured(runs'[r]) = Captured(runs[r])
          /\ Len(runs') > Len(runs) =>
                Captured(Last(runs')) =
                    [filter |-> filter, notify_filters |-> notify_filters,
                     depth |-> dir_depth, callbacks |-> callbacks]]_vars
    /\ [](\A r \in DOMAIN runs : \A i \in DOMAIN runs[r].invoked :
             runs[r].callbacks[runs[r].invoked[i].callback])

\* on_created was registered after the first start(): the first run has
\* received a Created batch and called nothing, and a second run has been
\* started with on_created
C29_Witness ==
    /\ Len(runs) >= 2
    /\ ~runs[1].callbacks["on_created"]
    /\ \E i \in DOMAIN Received(runs[1]) : Received(runs[1])[i].kind = "CREATE"
    /\ runs[1].invoked = <<>>
    /\ runs[2].callbacks["on_created"]


\* the number of calls of callbacks the runs r..Len(runs) have made
RECURSIVE CallsFrom(_)
CallsFrom(r) ==
    IF r > Len(runs) THEN 0 ELSE Len(runs[r].invoked) + CallsFrom(r + 1)

\* C30: whatever start() and stop() calls were made, each filesystem change
\* is handed to a callback at most once: the runs together have made at
\* most as many calls as there were changes.
C30_DeliveredOnce == CallsFrom(1) <= fsOps


\* C31: whenever is_started is set (start() would return false), the Poller
\* of the run the last successful start() spawned has neither terminated nor
\* panicked.
C31_RunningPollerAlive ==
    (is_started /\ runs # <<>>) =>
        runs[LatestRun].pc \notin {"done", "panicked"}


\* the run is stopped and no start() has followed
Stopped(r) == runs[r].stop_requested /\ ~is_started /\ r = LatestRun

\* C32: once stop() has returned true for a run, and as long as no start()
\* follows, a cycle of the run sends at most four messages, the Poller
\* leaves the top of its loop only by sending Exit and terminating, and the
\* run leads to both threads terminated with Exit the last message sent,
\* or to a later start().
C32_StopTerminates ==
    /\ [][\A r \in DOMAIN runs :
             (Stopped(r) /\ r \in DOMAIN runs') =>
                 /\ (runs[r].pc = "scan" /\ runs'[r].pc # "scan") =>
                       Len(runs'[r].sent) <= Len(runs[r].sent) + 4
                 /\ (runs[r].pc = "check" /\ runs'[r].pc # "check") =>
                       /\ runs'[r].pc = "done"
                       /\ Messages(runs'[r].sent)
                             = Append(Messages(runs[r].sent), EXIT)]_vars
    /\ (runs # <<>> /\ runs[1].stop_requested)
          ~> \/ /\ Len(runs) = 1
                /\ runs[1].pc = "done"
                /\ runs[1].npc = "done"
                /\ Last(runs[1].sent).msg = EXIT
             \/ Len(runs) > 1


\* on_created has been called with a batch that holds the file named n, or
\* on_renamed with a pair whose new name is n
DeliveredNew(n) ==
    \E i \in DOMAIN runs[1].invoked :
        /\ runs[1].invoked[i].callback \in {"on_created", "on_renamed"}
        /\ \E g \in runs[1].invoked[i].files : g.name = n

\* C33: b.txt, which the filter matches and which the directory does not
\* hold when start() returns, once it is on disk is eventually handed to
\* on_created (or to on_renamed as a new name), unless it leaves the disk,
\* the watcher is stopped or the Notifier has died; whatever the Poller was
\* doing when the file was created.
C33_CreationDelivered ==
    (NameB \in NamesOf(disk))
        ~> (\/ DeliveredNew(NameB)
            \/ NameB \notin NamesOf(disk)
            \/ ~is_started
            \/ runs[1].npc # "recv")


\* the names a message is about: those of its files, and the old names of
\* its renamed pairs
NamesIn(msg) ==
    NamesOf(msg.data) \cup
        (IF msg.kind = "RENAME" THEN {g.old_name : g \in msg.data} ELSE {})

\* C34: a.txt, which the directory holds at start() and which no operation
\* touches, is in no message a Poller sends, whatever happens to the other
\* files of the directory.
C34_UntouchedSilent ==
    \A r \in DOMAIN runs : \A i \in DOMAIN runs[r].sent :
        NameA \notin NamesIn(runs[r].sent[i].msg)


\* C35: for every dir_depth a SearchDir is built with, set or unset, the
\* counter its scans start from, rec_limit + 1, is the value the 8-bit
\* counter holds, and no scan fails on computing it.
C35_CounterFits ==
    \A r \in DOMAIN runs :
        /\ (runs[r].pc # "new" /\ ~runs[r].search_dir.panicked) =>
              (rec_limit(runs[r].search_dir) + 1) % (U8_MAX + 1)
                 = rec_limit(runs[r].search_dir) + 1
        /\ runs[r].panic # Some("overflow")

====
